---- MODULE Spec2Model ----
(***************************************************************************)
(* Model of src/pwa/app.js: the match viewer.  One page, two trigger       *)
(* controls, a status line and a list; every action is an async function   *)
(* whose only suspension points are the awaits on fetch(), res.text() and  *)
(* res.json().                                                             *)
(***************************************************************************)
EXTENDS Integers, Sequences, FiniteSets, TLC

VARIABLES
    scriptRan,   \* the module body of app.js has run (lines 1-124)
    href,        \* location.href, as the browser serialises it
    API,         \* const API (lines 2-12)
    clock,       \* index of the current local day in Days
    dateValue,   \* $date.value
    disabled,    \* [btnToday |-> $btnToday.disabled, btnLoad |-> $btnLoad.disabled]
    status,      \* $status.textContent
    list,        \* the text of the <li> children of $list, in order
    pc,          \* per action slot: where the async function is suspended
    url,         \* per action slot: the url given to fetchJSON
    res,         \* per action slot: what fetch(url) settled with
    body,        \* per action slot: what res.text() / res.json() settled with
    overlap,     \* history: the slot's action was in flight together with another
    first,       \* history: the slot's action was started before one it overlapped
    last         \* history: the action that finished last

vars == <<scriptRan, href, API, clock, dateValue, disabled, status, list,
          pc, url, res, body, overlap, first, last>>

----------------------------------------------------------------------------
(* Bounds *)

\* number of actions that can be in flight at once
MaxInFlight == 2
\* longest match sequence in a response
MaxLen == 2

Req == 1..MaxInFlight

----------------------------------------------------------------------------
(* Text.  Module strings are ASCII: the four non-ASCII glyphs of app.js are *)
(* named, each distinct from every ASCII string the model builds.          *)

BULLET   == "{U+2022}"
ENDASH   == "{U+2013}"
EMDASH   == "{U+2014}"
ELLIPSIS == "{U+2026}"

----------------------------------------------------------------------------
(* JavaScript values, tagged by typeof.  A property an object does not     *)
(* carry reads as Undefined, so objects are records holding every property *)
(* the code reads.                                                         *)

Undefined == [t |-> "undefined"]
Null      == [t |-> "null"]
Str(s)    == [t |-> "string", v |-> s]
Num(n)    == [t |-> "number", v |-> n]
Arr(xs)   == [t |-> "array", items |-> xs]
EmptyObj  == [t |-> "object"]

\* v == null (true of null and undefined only)
IsNullish(v) == v.t \in {"undefined", "null"}

\* ToBoolean(v), as || and ! apply it
Truthy(v) ==
    CASE v.t = "string" -> v.v # ""
      [] v.t = "number" -> v.v # 0
      [] v.t \in {"undefined", "null"} -> FALSE
      [] OTHER -> TRUE

\* a || b
Or(a, b) == IF Truthy(a) THEN a ELSE b

\* a ?? b
Coalesce(a, b) == IF IsNullish(a) THEN b ELSE a

\* v.f on a value that is not null or undefined
Get(v, f) ==
    IF v.t = "object" /\ f \in DOMAIN v THEN v[f]
    ELSE IF f = "length" /\ v.t = "array" THEN Num(Len(v.items))
    ELSE IF f = "length" /\ v.t = "string" THEN Num(Len(v.v))
    ELSE Undefined

\* v?.f
OptGet(v, f) == IF IsNullish(v) THEN Undefined ELSE Get(v, f)

\* `${v}`
ToStr(v) ==
    CASE v.t = "string" -> v.v
      [] v.t = "number" -> ToString(v.v)
      [] v.t = "undefined" -> "undefined"
      [] v.t = "null" -> "null"
      [] v.t = "array" -> "[array]"
      [] OTHER -> "[object Object]"

----------------------------------------------------------------------------
(* The clock and the locale *)

\* the local days the model's clock runs through
Days == <<"2024-05-02", "2024-05-03">>

\* toLocalISODate() at clock c
toLocalISODate(c) == Days[c]

\* Date.now() at clock c, in days
DateNow(c) == Num(c)

\* new Date(v).toLocaleString()
toLocaleString(v) ==
    CASE v.t = "number" -> Days[v.v] \o ", 12:00:00"
      [] v.t = "string" /\ v.v = "2024-05-01T18:00:00Z" -> "5/1/2024, 6:00:00 PM"
      [] v.t = "string" /\ v.v = "2024-05-01T20:30:00Z" -> "5/1/2024, 8:30:00 PM"
      [] OTHER -> "Invalid Date"

----------------------------------------------------------------------------
(* API base (lines 2-12) *)

\* the port a scheme implies
DefaultPort(scheme) ==
    CASE scheme = "http" -> "80"
      [] scheme = "https" -> "443"
      [] OTHER -> ""

\* the addresses a page is opened at: port "" is no port given
Navigated ==
    [parses : {TRUE}, scheme : {"http", "https"},
     host : {"localhost", "example.com"},
     port : {"", "80", "443", "5500", "9090"}]

\* location.href of a page opened at address a: the browser serialises the
\* address, and a serialised URL never carries its scheme's default port
LocationHref(a) ==
    [a EXCEPT !.port = IF a.port = DefaultPort(a.scheme) THEN "" ELSE a.port]

\* where URL is missing or location.href is no URL, new URL(...) throws
NoURL == [parses |-> FALSE, scheme |-> "", host |-> "", port |-> ""]

Hrefs == {LocationHref(a) : a \in Navigated} \cup {NoURL}

\* the page of the development setup, http://localhost:5500/
DevHref == [parses |-> TRUE, scheme |-> "http", host |-> "localhost", port |-> "5500"]

\* new URL(h): protocol keeps its colon, port is "" for the scheme's default
URLParse(h) ==
    [protocol |-> h.scheme \o ":",
     hostname |-> h.host,
     port     |-> IF h.port = DefaultPort(h.scheme) THEN "" ELSE h.port]

FallbackAPI == "http://127.0.0.1:8000"

SameOriginNoPort(h) ==
    IF ~h.parses THEN FallbackAPI
    ELSE LET u == URLParse(h) IN
         IF u.port = "5500" THEN FallbackAPI
         ELSE u.protocol \o "//" \o u.hostname

\* the value of the IIFE of lines 2-12
ResolveAPI(h) ==
    IF ~h.parses THEN FallbackAPI
    ELSE LET u == URLParse(h) IN
         IF u.port = "5500" THEN FallbackAPI
         ELSE u.protocol \o "//" \o u.hostname
              \o (IF u.port # "" THEN ":" \o u.port ELSE "")

----------------------------------------------------------------------------
(* renderMatches (lines 51-85) *)

\* a MatchRecord: every property renderMatches reads
MatchObj(ln, lg, comp, ht, at, hg, ag, when) ==
    [t |-> "object",
     date_utc |-> when, date |-> Undefined, kickoff |-> Undefined,
     league_name |-> ln, league |-> lg, competition |-> comp,
     home_team |-> ht, home |-> Undefined,
     away_team |-> at, away |-> Undefined,
     teams |-> Undefined,
     home_goals |-> hg, away_goals |-> ag]

LeagueObj(name) == [t |-> "object", name |-> name]

\* lines 65-66
TimeLocal(m, c) ==
    toLocaleString(Or(Or(Or(Get(m, "date_utc"), Get(m, "date")), Get(m, "kickoff")),
                      DateNow(c)))

LeagueNameLast(m) ==
    Or(Or(Or(OptGet(Get(m, "league"), "name"), Get(m, "competition")),
          Get(m, "league_name")),
       Str(EMDASH))

\* lines 68-72
League(m) ==
    Or(Or(Or(Get(m, "league_name"), OptGet(Get(m, "league"), "name")),
          Get(m, "competition")),
       Str(EMDASH))

\* line 74
Home(m) ==
    Or(Or(Or(Get(m, "home_team"), Get(m, "home")),
          OptGet(OptGet(OptGet(m, "teams"), "home"), "name")),
       Str("Home"))

\* line 75
Away(m) ==
    Or(Or(Or(Get(m, "away_team"), Get(m, "away")),
          OptGet(OptGet(OptGet(m, "teams"), "away"), "name")),
       Str("Away"))

ScoreFalsy(m) ==
    IF ~Truthy(Get(m, "home_goals")) \/ ~Truthy(Get(m, "away_goals"))
    THEN "vs"
    ELSE ToStr(Get(m, "home_goals")) \o ENDASH \o ToStr(Get(m, "away_goals"))

\* lines 77-80
Score(m) ==
    IF IsNullish(Get(m, "home_goals")) \/ IsNullish(Get(m, "away_goals"))
    THEN "vs"
    ELSE ToStr(Get(m, "home_goals")) \o ENDASH \o ToStr(Get(m, "away_goals"))

\* line 82
Line(m, c) ==
    "[" \o ToStr(League(m)) \o "] " \o ToStr(Home(m)) \o " " \o Score(m) \o " "
        \o ToStr(Away(m)) \o " " \o EMDASH \o " " \o TimeLocal(m, c)

NoMatchesText == "No matches for this date."

\* reading a property of null (m.date_utc, line 65)
NullReadMessage == "Cannot read properties of null (reading 'date_utc')"
\* for...of over a value that is no iterable (line 64)
NotIterableMessage == "matches is not iterable"

\* line 53
DisplayDate(payload, c) ==
    Coalesce(OptGet(payload, "date"), Str(toLocalISODate(c)))

MatchesFieldOnly(payload) ==
    Coalesce(OptGet(payload, "matches"), Arr(<<>>))

\* line 54
Matches(payload) ==
    IF payload.t = "array" THEN payload
    ELSE Coalesce(OptGet(payload, "matches"), Arr(<<>>))

KeepList(l) == l

\* line 56: $list.innerHTML = ""
ClearList(l) == <<>>

\* line 57
RenderStatus(date, matches) ==
    "date: " \o ToStr(date) \o " " \o BULLET \o " matches: "
        \o ToStr(Get(matches, "length"))

\* lines 64-84: the loop over the elements, appending one <li> per element
\* until an element throws (a null element: m.date_utc of null)
RenderLoop(items, acc, c) ==
    LET bad  == {i \in 1..Len(items) : IsNullish(items[i])}
        stop == IF bad = {} THEN Len(items) + 1
                ELSE CHOOSE i \in bad : \A k \in bad : i <= k
    IN  [threw   |-> bad # {},
         message |-> IF bad = {} THEN "" ELSE NullReadMessage,
         list    |-> acc \o [i \in 1..(stop - 1) |-> Line(items[i], c)]]

\* renderMatches(payload) on a list holding list0, at clock c: what it leaves
\* in $status and $list, and whether it threw
renderMatches(payload, list0, c) ==
    LET date    == DisplayDate(payload, c)
        matches == Matches(payload)
        list1   == ClearList(list0)
        status1 == RenderStatus(date, matches)
    IN  IF ~Truthy(Get(matches, "length"))
        THEN [threw |-> FALSE, message |-> "", status |-> status1,
              list |-> Append(list1, NoMatchesText)]
        ELSE IF matches.t # "array"
        THEN [threw |-> TRUE, message |-> NotIterableMessage, status |-> status1,
              list |-> list1]
        ELSE [status |-> status1] @@ RenderLoop(matches.items, list1, c)

----------------------------------------------------------------------------
(* The network: what fetch(), res.text() and res.json() settle with *)

M1 == MatchObj(Str("Serie A"), Undefined, Undefined, Str("Roma"), Str("Lazio"),
               Num(1), Num(0), Str("2024-05-01T18:00:00Z"))
M2 == MatchObj(Undefined, LeagueObj(Str("La Liga")), Undefined, Str("Betis"),
               Str("Sevilla"), Null, Num(2), Undefined)

PayloadObj(date, matches) == [t |-> "object", date |-> date, matches |-> matches]

\* the JSON bodies the server of the state machine answers with
Payloads ==
    { PayloadObj(Str("2024-05-01"), Arr(<<M1, M2>>)),
      Arr(<<M2, M1>>),
      PayloadObj(Str("2024-05-01"), Arr(<<>>)),
      Arr(<<M1, Null>>),
      PayloadObj(Undefined, EmptyObj),
      Null }

None == [kind |-> "none"]

FetchOutcomes ==
    { [kind |-> "reject", ok |-> FALSE, status |-> 0, message |-> "Failed to fetch"],
      [kind |-> "response", ok |-> TRUE, status |-> 200, message |-> ""],
      [kind |-> "response", ok |-> FALSE, status |-> 404, message |-> ""],
      [kind |-> "response", ok |-> FALSE, status |-> 500, message |-> ""] }

\* res.text(): the body text, or a failed read
TextOutcomes ==
    { [kind |-> "text", ok |-> TRUE, txt |-> "boom"],
      [kind |-> "text", ok |-> TRUE, txt |-> ""],
      [kind |-> "text", ok |-> FALSE, txt |-> ""] }

SyntaxErrorMessage == "Unexpected token < in JSON at position 0"

\* res.json(): the parsed body, or a SyntaxError
JsonOutcomes ==
    { [kind |-> "json", ok |-> FALSE, message |-> SyntaxErrorMessage, data |-> Undefined] }
    \cup { [kind |-> "json", ok |-> TRUE, message |-> "", data |-> p] : p \in Payloads }

----------------------------------------------------------------------------
(* Utils (lines 28-48) *)

\* line 28
setStatus(msg) == msg

setLoadingTodayOnly(on) == [btnToday |-> on, btnLoad |-> FALSE]

\* lines 30-33
setLoading(on) == [btnToday |-> on, btnLoad |-> on]

\* encodeURIComponent(d) on the texts the date field holds
encodeURIComponent(d) ==
    CASE d = "1/2" -> "1%2F2"
      [] OTHER -> d

HttpErrorMessageBodyOnly(st, txt, u) ==
    "HTTP " \o ToString(st) \o " " \o BULLET \o " " \o txt

\* line 45: `HTTP ${res.status} * ${txt || url}`
HttpErrorMessage(st, txt, u) ==
    "HTTP " \o ToString(st) \o " " \o BULLET \o " " \o (IF txt # "" THEN txt ELSE u)

\* line 92
TodayUrl(api) == api \o "/api/matches/today"

\* line 107
DateUrl(api, d) == api \o "/api/matches/date?d=" \o encodeURIComponent(d)

\* line 91
TodayLoading == "loading /api/matches/today " \o ELLIPSIS

\* line 106
DateLoading(d) == "loading /api/matches/date?d=" \o d \o " " \o ELLIPSIS

catchBlockKeepList(message, l) ==
    [status |-> setStatus("error: " \o message), list |-> l]

\* lines 94-97 and 109-112: the catch block, on a list holding l
catchBlock(message, l) ==
    [status |-> setStatus("error: " \o message), list |-> <<>>]

finallyBlockTryOnly(threw, dis) == IF threw THEN dis ELSE setLoading(FALSE)

\* lines 98-100 and 113-115: the finally block, on controls in state dis
finallyBlock(threw, dis) == setLoading(FALSE)

----------------------------------------------------------------------------
(* State *)

SettledPc == {"fetchSettled", "textSettled", "jsonSettled"}

\* no continuation is waiting to run: the microtask queue is empty
Quiescent == \A r \in Req : pc[r] \notin SettledPc

InFlight(r) == pc[r] # "idle"

AllIdle == \A r \in Req : pc[r] = "idle"

\* the slot a new action runs in
FreeSlot == CHOOSE r \in Req : pc[r] = "idle" /\ \A q \in Req : pc[q] = "idle" => r <= q

NoLast == [any |-> FALSE, overlap |-> FALSE, first |-> FALSE]

\* the page as loaded, before app.js runs, at address h
InitAt(h) ==
    /\ scriptRan = FALSE
    /\ href = h
    /\ API = ""
    /\ clock \in 1..Len(Days)
    /\ dateValue = ""
    /\ disabled = [btnToday |-> FALSE, btnLoad |-> FALSE]
    /\ status = ""
    /\ list = <<>>
    /\ pc = [r \in Req |-> "idle"]
    /\ url = [r \in Req |-> ""]
    /\ res = [r \in Req |-> None]
    /\ body = [r \in Req |-> None]
    /\ overlap = [r \in Req |-> FALSE]
    /\ first = [r \in Req |-> FALSE]
    /\ last = NoLast

Init == InitAt(DevHref)

----------------------------------------------------------------------------
(* Actions (lines 88-116) up to their first await *)

\* lines 90-92 and 105-107 with fetchJSON's line 42: disable the controls, show
\* the loading text, issue fetch(u)
Begin(r, u, msg) ==
    /\ pc[r] = "idle"
    /\ disabled' = setLoading(TRUE)
    /\ status' = setStatus(msg)
    /\ pc' = [pc EXCEPT ![r] = "fetch"]
    /\ url' = [url EXCEPT ![r] = u]
    /\ overlap' = [q \in Req |-> IF q = r THEN \E o \in Req : InFlight(o)
                                 ELSE overlap[q] \/ InFlight(q)]
    /\ first' = [q \in Req |-> IF q = r THEN FALSE ELSE first[q] \/ InFlight(q)]
    /\ UNCHANGED <<list, res, body, last, clock, href>>

\* fetchToday(), lines 88-92
fetchToday(r, api) == Begin(r, TodayUrl(api), TodayLoading)

\* fetchDate(d), lines 103-107
fetchDate(r, api, d) == Begin(r, DateUrl(api, d), DateLoading(d))

\* lines 2-12 and 119-124: the module body.  fetchToday() catches whatever it
\* throws, so the promise it returns never rejects and the .catch of line 124
\* never runs
Startup ==
    /\ ~scriptRan
    /\ scriptRan' = TRUE
    /\ API' = ResolveAPI(href)
    /\ dateValue' = toLocalISODate(clock)
    /\ fetchToday(FreeSlot, ResolveAPI(href))

\* the texts a user types into the date field
DateInputs == {"", "1/2"}

\* the user edits the date field
TypeDate(v) ==
    /\ scriptRan /\ Quiescent
    /\ dateValue # v
    /\ dateValue' = v
    /\ UNCHANGED <<scriptRan, href, API, clock, disabled, status, list, pc, url,
                   res, body, overlap, first, last>>

\* local midnight passes
Tick ==
    /\ Quiescent
    /\ clock < Len(Days)
    /\ clock' = clock + 1
    /\ UNCHANGED <<scriptRan, href, API, dateValue, disabled, status, list, pc, url,
                   res, body, overlap, first, last>>

\* line 120: a click on btnToday; a disabled button fires no click
ClickToday ==
    /\ scriptRan /\ Quiescent
    /\ ~disabled.btnToday
    /\ \E r \in Req : pc[r] = "idle"
    /\ fetchToday(FreeSlot, API)
    /\ UNCHANGED <<scriptRan, API, dateValue>>

\* line 121: a click on btnLoad
ClickLoad ==
    /\ scriptRan /\ Quiescent
    /\ ~disabled.btnLoad
    /\ \E r \in Req : pc[r] = "idle"
    /\ fetchDate(FreeSlot, API,
                 IF dateValue # "" THEN dateValue ELSE toLocalISODate(clock))
    /\ UNCHANGED <<scriptRan, API, dateValue>>

\* fetchToday() called by other script, whatever the controls show
CallFetchToday ==
    /\ scriptRan /\ Quiescent
    /\ \E r \in Req : pc[r] = "idle"
    /\ fetchToday(FreeSlot, API)
    /\ UNCHANGED <<scriptRan, API, dateValue>>

ProgDates == {"1/2"}

\* fetchDate(d) called by other script
CallFetchDate(d) ==
    /\ scriptRan /\ Quiescent
    /\ \E r \in Req : pc[r] = "idle"
    /\ fetchDate(FreeSlot, API, d)
    /\ UNCHANGED <<scriptRan, API, dateValue>>

----------------------------------------------------------------------------
(* The network settles a promise an action awaits *)

FetchSettles(r, o) ==
    /\ Quiescent
    /\ pc[r] = "fetch"
    /\ pc' = [pc EXCEPT ![r] = "fetchSettled"]
    /\ res' = [res EXCEPT ![r] = o]
    /\ UNCHANGED <<scriptRan, href, API, clock, dateValue, disabled, status, list,
                   url, body, overlap, first, last>>

TextSettles(r, o) ==
    /\ Quiescent
    /\ pc[r] = "text"
    /\ pc' = [pc EXCEPT ![r] = "textSettled"]
    /\ body' = [body EXCEPT ![r] = o]
    /\ UNCHANGED <<scriptRan, href, API, clock, dateValue, disabled, status, list,
                   url, res, overlap, first, last>>

JsonSettles(r, o) ==
    /\ Quiescent
    /\ pc[r] = "json"
    /\ pc' = [pc EXCEPT ![r] = "jsonSettled"]
    /\ body' = [body EXCEPT ![r] = o]
    /\ UNCHANGED <<scriptRan, href, API, clock, dateValue, disabled, status, list,
                   url, res, overlap, first, last>>

----------------------------------------------------------------------------
(* The continuations of an action *)

\* the action of slot r ends: shown is what it wrote, then the finally block
End(r, threw, shown) ==
    /\ status' = shown.status
    /\ list' = shown.list
    /\ disabled' = finallyBlock(threw, disabled)
    /\ pc' = [pc EXCEPT ![r] = "idle"]
    /\ url' = [url EXCEPT ![r] = ""]
    /\ res' = [res EXCEPT ![r] = None]
    /\ body' = [body EXCEPT ![r] = None]
    /\ overlap' = [overlap EXCEPT ![r] = FALSE]
    /\ first' = [first EXCEPT ![r] = FALSE]
    /\ last' = [any |-> TRUE, overlap |-> overlap[r], first |-> first[r]]
    /\ UNCHANGED <<scriptRan, href, API, clock, dateValue>>

\* the action of slot r throws message
Fail(r, message, l) == End(r, TRUE, catchBlock(message, l))

\* after `await fetch(url, ...)`, lines 42-47
ResumeFetch(r) ==
    /\ pc[r] = "fetchSettled"
    /\ IF res[r].kind = "reject"
       THEN Fail(r, res[r].message, list)
       ELSE /\ pc' = [pc EXCEPT ![r] = IF res[r].ok THEN "json" ELSE "text"]
            /\ UNCHANGED <<scriptRan, href, API, clock, dateValue, disabled, status,
                           list, url, res, body, overlap, first, last>>

\* after `await res.text().catch(() => "")`, lines 44-45
ResumeText(r) ==
    /\ pc[r] = "textSettled"
    /\ Fail(r, HttpErrorMessage(res[r].status,
                                IF body[r].ok THEN body[r].txt ELSE "", url[r]),
            list)

\* after res.json() settles, lines 47, 92-100 and 107-115
ResumeJson(r) ==
    /\ pc[r] = "jsonSettled"
    /\ IF ~body[r].ok
       THEN Fail(r, body[r].message, list)
       ELSE \E rm \in {renderMatches(body[r].data, list, clock)} :
                IF rm.threw
                THEN Fail(r, rm.message, rm.list)
                ELSE End(r, FALSE, [status |-> rm.status, list |-> rm.list])

----------------------------------------------------------------------------
(* Specifications *)

Network ==
    \/ \E r \in Req, o \in FetchOutcomes : FetchSettles(r, o)
    \/ \E r \in Req, o \in TextOutcomes : TextSettles(r, o)
    \/ \E r \in Req, o \in JsonOutcomes : JsonSettles(r, o)

Resume ==
    \/ \E r \in Req : ResumeFetch(r)
    \/ \E r \in Req : ResumeText(r)
    \/ \E r \in Req : ResumeJson(r)

\* the page and its user
Next ==
    \/ Startup
    \/ ClickToday
    \/ ClickLoad
    \/ \E v \in DateInputs : TypeDate(v)
    \/ Tick
    \/ Network
    \/ Resume

Spec == Init /\ [][Next]_vars

\* the page, its user, and script that calls the actions itself
NextProg ==
    \/ Startup
    \/ Network
    \/ Resume
    \/ CallFetchToday
    \/ \E d \in ProgDates : CallFetchDate(d)

SpecProg == Init /\ [][NextProg]_vars

\* every address a page is served at
InitBase == \E h \in Hrefs : InitAt(h)

SpecBase == InitBase /\ [][Next]_vars

\* the event loop runs a continuation once the promise it awaits has settled
FairSpec == Spec /\ WF_vars(Resume)

----------------------------------------------------------------------------
(* renderMatches on its own: the page at the moment res.json() has settled  *)
(* with a body, for every body and every list an earlier action left       *)

Items == {M1, M2, Null}

Seqs == UNION {[1..n -> Items] : n \in 0..MaxLen}

MatchSpace ==
    { MatchObj(ln, lg, comp, Str("Roma"), Str("Lazio"), hg, ag,
               Str("2024-05-01T18:00:00Z")) :
        ln \in {Undefined, Null, Str(""), Str("Serie A")},
        lg \in {Undefined, Null, LeagueObj(Undefined), LeagueObj(Str("")),
                LeagueObj(Str("La Liga"))},
        comp \in {Undefined, Str(""), Str("Cup")},
        hg \in {Undefined, Null, Num(0), Num(2)},
        ag \in {Undefined, Null, Num(0), Num(1)} }

PayloadDates == {Undefined, Null, Str(""), Str("2024-05-01")}

RenderPayloads ==
    {Arr(q) : q \in Seqs}
    \cup {PayloadObj(d, Arr(q)) : d \in PayloadDates, q \in Seqs}
    \cup {PayloadObj(d, x) : d \in PayloadDates, x \in {Undefined, Null, EmptyObj}}
    \cup {Null}
    \cup {Arr(<<m>>) : m \in MatchSpace}

\* what an earlier action left in the list
PriorLists == {<<>>, <<NoMatchesText>>, <<Line(M1, 1), Line(M2, 1)>>}

InitRender ==
    /\ scriptRan = TRUE
    /\ href = DevHref
    /\ API = ResolveAPI(DevHref)
    /\ clock \in 1..Len(Days)
    /\ dateValue = toLocalISODate(1)
    /\ disabled = setLoading(TRUE)
    /\ status = TodayLoading
    /\ list \in PriorLists
    /\ pc = [r \in Req |-> IF r = 1 THEN "jsonSettled" ELSE "idle"]
    /\ url = [r \in Req |-> IF r = 1 THEN TodayUrl(ResolveAPI(DevHref)) ELSE ""]
    /\ res = [r \in Req |-> IF r = 1
                            THEN [kind |-> "response", ok |-> TRUE, status |-> 200,
                                  message |-> ""]
                            ELSE None]
    /\ \E p \in RenderPayloads :
           body = [r \in Req |-> IF r = 1
                                 THEN [kind |-> "json", ok |-> TRUE, message |-> "",
                                       data |-> p]
                                 ELSE None]
    /\ overlap = [r \in Req |-> FALSE]
    /\ first = [r \in Req |-> FALSE]
    /\ last = NoLast

NextRender == \E r \in Req : ResumeJson(r)

SpecRender == InitRender /\ [][NextRender]_vars

----------------------------------------------------------------------------
(* Properties *)

StartsWith(str, prefix) ==
    Len(str) >= Len(prefix) /\ SubSeq(str, 1, Len(prefix)) = prefix

EndsWith(str, suffix) ==
    Len(str) >= Len(suffix)
    /\ SubSeq(str, Len(str) - Len(suffix) + 1, Len(str)) = suffix

ControlsEnabled == ~disabled.btnToday /\ ~disabled.btnLoad
ControlsDisabled == disabled.btnToday /\ disabled.btnLoad

\* the step in which the action of slot r ends
Ending(r) == pc[r] \in SettledPc /\ pc'[r] = "idle"

\* the action of slot r is about to fail: fetch rejected, the status is not
\* 2xx and the body read is over, or the body is no JSON
Failing(r) ==
    \/ pc[r] = "fetchSettled" /\ res[r].kind = "reject"
    \/ pc[r] = "textSettled"
    \/ pc[r] = "jsonSettled" /\ ~body[r].ok

\* the message of that failure
FailureMessage(r) ==
    CASE pc[r] = "fetchSettled" -> res[r].message
      [] pc[r] = "textSettled" ->
            "HTTP " \o ToString(res[r].status) \o " " \o BULLET \o " "
            \o (IF body[r].ok /\ body[r].txt # "" THEN body[r].txt ELSE url[r])
      [] OTHER -> body[r].message

\* C1: with actions started only by the startup call and by clicks on an
\* enabled control, at most one request is in flight, and both controls are
\* disabled while one is.
C1_SingleFlight ==
    /\ Cardinality({r \in Req : InFlight(r)}) <= 1
    /\ (\E r \in Req : InFlight(r)) => ControlsDisabled

\* a request started by a click on btnLoad is pending
C1_Witness ==
    \E r \in Req : pc[r] = "json" /\ url[r] = DateUrl(API, "1/2") /\ ControlsDisabled

\* C2: an action that fails ends with status `error: <message>` and an empty
\* list; for a non-2xx response the message is `HTTP <status> * <body>`, with
\* the url for the body when the body is empty or cannot be read.
C2_FailureShown ==
    [][\A r \in Req :
         (Failing(r) /\ Ending(r)) =>
             /\ status' = "error: " \o FailureMessage(r)
             /\ list' = <<>>]_vars

\* an action for a typed date has ended on a non-2xx response with no body text
C2_Witness ==
    /\ AllIdle
    /\ status = "error: HTTP 500 " \o BULLET \o " " \o DateUrl(API, "1/2")
    /\ list = <<>>

\* a request has settled for good: nothing more is awaited from the network
Settled(r) ==
    \/ pc[r] = "fetchSettled" /\ res[r].kind = "reject"
    \/ pc[r] \in {"textSettled", "jsonSettled"}

\* C3: an action whose request settles, successfully or not, ends, and the
\* step that ends it leaves both controls enabled.
C3_ControlsReenabled ==
    /\ \A r \in Req : Settled(r) ~> (pc[r] = "idle" /\ ControlsEnabled)
    /\ [][\A r \in Req : Ending(r) => ControlsEnabled']_vars

\* a failed action has ended and the controls are enabled
C3_Witness ==
    AllIdle /\ last.any /\ StartsWith(status, "error: ") /\ ControlsEnabled

\* what the action of slot r, about to end, writes by itself
Written(r) ==
    IF Failing(r)
    THEN [status |-> "error: " \o FailureMessage(r), list |-> <<>>]
    ELSE LET rm == renderMatches(body[r].data, <<>>, clock) IN
         IF rm.threw
         THEN [status |-> "error: " \o rm.message, list |-> <<>>]
         ELSE [status |-> rm.status, list |-> rm.list]

\* C4: when actions overlapped, what is shown once all have ended is what the
\* action that ended last wrote, whichever was started first.
C4_LastResolvedWins ==
    [][\A r \in Req :
         (Ending(r) /\ overlap[r] /\ AllIdle') =>
             /\ status' = Written(r).status
             /\ list' = Written(r).list]_vars

\* two actions overlapped, and the one started first ended last
C4_Witness == AllIdle /\ last.any /\ last.overlap /\ last.first

\* the match sequence of a response: the response itself, or its `matches`
SeqOf(p) ==
    IF p.t = "array" THEN p.items
    ELSE IF p.t = "object" /\ p.matches.t = "array" THEN p.matches.items
    ELSE <<>>

\* the response carries a match sequence, or none at all
HasSeqOrNone(p) ==
    \/ p.t \in {"array", "null"}
    \/ p.t = "object" /\ p.matches.t \in {"array", "undefined", "null"}

\* the date a render shows: the response's `date` if present, else today
ShownDate(p, c) ==
    IF p.t = "object" /\ p.date.t = "string" THEN p.date.v ELSE Days[c]

\* the render step of slot r
Rendering(r) == pc[r] = "jsonSettled" /\ body[r].ok /\ Ending(r)

\* C5: a response with a non-empty sequence of matches renders one line per
\* match, in input order, with nothing of the earlier list, and the status
\* `date: <date> * matches: <count>`.
C5_OneLinePerMatch ==
    [][\A r \in Req :
         LET p == body[r].data
             q == SeqOf(p)
         IN  (Rendering(r) /\ q # <<>> /\ \A i \in 1..Len(q) : q[i].t = "object") =>
                 /\ Len(list') = Len(q)
                 /\ \A i \in 1..Len(q) : list'[i] = Line(q[i], clock)
                 /\ status' = "date: " \o ShownDate(p, clock) \o " " \o BULLET
                               \o " matches: " \o ToString(Len(q))]_vars

\* a bare sequence of two matches was rendered on the second day
C5_Witness ==
    /\ AllIdle
    /\ list = <<Line(M2, 2), Line(M1, 2)>>
    /\ status = "date: 2024-05-03 " \o BULLET \o " matches: 2"

\* C6: a response whose match sequence is empty or missing renders the
\* status `date: <date> * matches: 0` and the single entry "No matches for
\* this date.", whatever the list held.
C6_EmptyRender ==
    [][\A r \in Req :
         LET p == body[r].data IN
         (Rendering(r) /\ HasSeqOrNone(p) /\ SeqOf(p) = <<>>) =>
             /\ list' = <<NoMatchesText>>
             /\ status' = "date: " \o ShownDate(p, clock) \o " " \o BULLET
                           \o " matches: 0"]_vars

\* {date: "2024-05-01", matches: []} was rendered
C6_Witness ==
    /\ AllIdle
    /\ list = <<NoMatchesText>>
    /\ status = "date: 2024-05-01 " \o BULLET \o " matches: 0"

\* a response that is one match
OneMatch(r) == Rendering(r) /\ body[r].data \in {Arr(<<m>>) : m \in MatchSpace}

\* the line of match m with league part lg and score part sc
LineWith(m, lg, sc) ==
    "[" \o lg \o "] " \o ToStr(Home(m)) \o " " \o sc \o " " \o ToStr(Away(m))
        \o " " \o EMDASH \o " " \o TimeLocal(m, clock)

\* C7: the score of a match is "vs" if home_goals or away_goals is null or
\* absent, else `<home_goals>-<away_goals>` with an en-dash; 0 is a goal count.
C7_Score ==
    [][\A r \in Req :
         OneMatch(r) =>
             LET m  == body[r].data.items[1]
                 sc == IF m.home_goals.t = "number" /\ m.away_goals.t = "number"
                       THEN ToString(m.home_goals.v) \o ENDASH
                            \o ToString(m.away_goals.v)
                       ELSE "vs"
             IN  list' = <<LineWith(m, ToStr(League(m)), sc)>>]_vars

\* a match with 0 and 0 goals was rendered
C7_Witness ==
    list = <<"[Serie A] Roma 0" \o ENDASH \o "0 Lazio " \o EMDASH
             \o " 5/1/2024, 6:00:00 PM">>

\* a name is set: a string that is not empty
IsSet(v) == v.t = "string" /\ v.v # ""

\* C8: the league of a match is league_name if set, else league.name if set,
\* else competition if set, else the dash.
C8_League ==
    [][\A r \in Req :
         OneMatch(r) =>
             LET m  == body[r].data.items[1]
                 lg == IF IsSet(m.league_name) THEN m.league_name.v
                       ELSE IF m.league.t = "object" /\ IsSet(m.league.name)
                            THEN m.league.name.v
                       ELSE IF IsSet(m.competition) THEN m.competition.v
                       ELSE EMDASH
             IN  list' = <<LineWith(m, lg, Score(m))>>]_vars

\* a match with league_name and league.name both set was rendered
C8_Witness ==
    /\ last.any
    /\ list = <<Line(MatchObj(Str("Serie A"), LeagueObj(Str("La Liga")), Str("Cup"),
                              Str("Roma"), Str("Lazio"), Num(2), Num(1),
                              Str("2024-05-01T18:00:00Z")), clock)>>
    /\ StartsWith(list[1], "[Serie A] ")

\* the base the page's address stands for
BaseOf(h) ==
    IF ~h.parses \/ h.port = "5500" THEN "http://127.0.0.1:8000"
    ELSE h.scheme \o "://" \o h.host \o (IF h.port # "" THEN ":" \o h.port ELSE "")

\* the paths of the two endpoints
Paths ==
    {"/api/matches/today"}
    \cup {"/api/matches/date?d=" \o d : d \in {"1%2F2"} \cup {Days[c] : c \in 1..Len(Days)}}

\* C9: the API base is the fallback if the page's port is 5500 or its address
\* does not parse, else the page's scheme://host[:port]; it is set once at
\* startup and every request is made to it.
C9_ApiBase ==
    scriptRan =>
        /\ API = BaseOf(href)
        /\ \A r \in Req : InFlight(r) => url[r] \in {BaseOf(href) \o path : path \in Paths}

\* a page served at https://example.com:9090 has a request for a date pending
C9_Witness ==
    /\ href = [parses |-> TRUE, scheme |-> "https", host |-> "example.com",
               port |-> "9090"]
    /\ \E r \in Req : url[r] = "https://example.com:9090/api/matches/date?d=1%2F2"

\* C10: after startup, whenever no request is in flight, both controls are
\* enabled, the status is no loading text, and status and list have one of
\* three shapes: error and no entry; `matches: 0` and the single "No matches"
\* entry; `matches: n` and n match lines.
C10_IdleShape ==
    (scriptRan /\ AllIdle) =>
        /\ ControlsEnabled
        /\ ~StartsWith(status, "loading ")
        /\ \/ StartsWith(status, "error: ") /\ list = <<>>
           \/ EndsWith(status, " matches: 0") /\ list = <<NoMatchesText>>
           \/ /\ Len(list) > 0
              /\ EndsWith(status, " matches: " \o ToString(Len(list)))
              /\ \A i \in 1..Len(list) : StartsWith(list[i], "[")

====
